---- MODULE Spec2Model ----
(***************************************************************************)
(* State-machine model of allCombined_TridentPier.py: six sequential       *)
(* fetches from the NOAA tides-and-currents API, the min/max of all        *)
(* fetched timestamps, the chart set-up, and the sleep-paced playback loop *)
(* that replays the fetched records into one line series per parameter.    *)
(*                                                                         *)
(* Time scale.  A record's 't' field is modelled by the number of the      *)
(* six-minute sample it names, counted from begin_date.  pandas'           *)
(* Timestamp.value (nanoseconds) is modelled in ticks of 10^5 ns counted   *)
(* from begin_date so that it fits the model checker's integers; the       *)
(* division by 10**6 that yields milliseconds is then a division by 10.    *)
(***************************************************************************)
EXTENDS Integers, Sequences, FiniteSets, TLC

\* Longest record list a response carries.
MaxLen == 2

VARIABLES
    pc,           \* position of the script: the statement it executes next
    error,        \* the exception that terminated the script, or None
    requested,    \* parameters for which requests.get was called, in call order
    responses,    \* parameter -> JSON body its request returned (`data`)
    data_store,   \* parameter -> record list kept for it
    timestamps,   \* pool of parsed timestamps of all kept records
    printed,      \* lines written by print(), in order
    min_time,     \* earliest pooled timestamp (ticks), Unbound before line 40
    max_time,     \* latest pooled timestamp (ticks), Unbound before line 41
    min_time_ms,  \* min_time in milliseconds, Unbound before line 44
    max_time_ms,  \* max_time in milliseconds, Unbound before line 45
    chart,        \* the ChartXY: NoChart before line 48, then its settings
    series_list,  \* parameter -> points added to its line series
    i,            \* playback position (index into the record lists, from 0)
    j,            \* playback inner loop: index into urls of the next parameter
    sleeps        \* number of time.sleep calls completed

vars == <<pc, error, requested, responses, data_store, timestamps, printed,
          min_time, max_time, min_time_ms, max_time_ms, chart, series_list,
          i, j, sleeps>>

\* No exception has been raised.
None == "None"

\* A time variable the script has not assigned yet (no timestamp is
\* negative).
Unbound == -1

\* The chart before line 48 creates it.
NoChart == <<>>

\* The keys of the urls dict in insertion order, which is the order of every
\* iteration over urls.items() and over series_list.items().
urls ==
    <<"wind", "air_pressure", "water_level", "tide_predictions",
      "water_temperature", "air_temperature">>

Params == {urls[k] : k \in 1..Len(urls)}

y_axis_units ==
    [p \in Params |->
        CASE p = "wind" -> "Wind (m/s)"
          [] p = "air_pressure" -> "Pressure (hPa)"
          [] p = "water_level" -> "Water Lvl (m)"
          [] p = "tide_predictions" -> "Tide Pred. (m)"
          [] p = "water_temperature" -> "Water Temp (C)"
          [] p = "air_temperature" -> "Air Temp (C)"]

----------------------------------------------------------------------------
(* Conversions *)

\* pd.to_datetime(entry['t']).value: sample number t, six minutes apart, in
\* ticks of 10^5 ns from begin_date.
to_datetime(t) == t * 3600000

\* timestamp.value / 10**6: ticks to milliseconds.
to_ms(value) == value \div 10

\* float(value_str) for the decimal numerals the API serves, in thousandths.
\* (The API prints a reading as a decimal numeral or as the empty string;
\* float raises ValueError on any other text, which no response here holds.)
float(val) ==
    CASE val = "0.0" -> 0
      [] val = "1.23" -> 1230
      [] val = "2.5" -> 2500

\* Variant: a reading of zero is taken for a missing value.
IsValid_nonzero(val) == val # "" /\ val # "0.0"

\* Truth value of `value_str and value_str != ''`.
IsValid(val) == val # "" /\ val # ""

\* The field holding a parameter's value: wind speed is 's', the rest use 'v'.
value_str(param, entry) == IF param = "wind" THEN entry.s ELSE entry.v

\* Variant: the pool is taken to be sorted.
min_first(seq) == seq[1]

RECURSIVE min(_)
min(seq) ==
    IF Len(seq) = 1 THEN seq[1]
    ELSE LET m == min(Tail(seq)) IN IF seq[1] <= m THEN seq[1] ELSE m

RECURSIVE max(_)
max(seq) ==
    IF Len(seq) = 1 THEN seq[1]
    ELSE LET m == max(Tail(seq)) IN IF seq[1] >= m THEN seq[1] ELSE m

----------------------------------------------------------------------------
(* What the API may answer *)

\* The reading of sample k as the API prints it.
Reading(k) ==
    CASE k % 3 = 1 -> "0.0"
      [] k % 3 = 2 -> "2.5"
      [] k % 3 = 0 -> "1.23"

\* One record of a parameter's list: wind records carry the speed under 's',
\* all others carry the value under 'v'.
Record(param, t, val) ==
    IF param = "wind" THEN [t |-> t, s |-> val] ELSE [t |-> t, v |-> val]

\* n records of consecutive samples starting `shift` samples late, the value
\* of record `gap` (if any) being the empty string.
Records(param, n, shift, gap) ==
    [k \in 1..n |-> Record(param, k + shift, IF k = gap THEN "" ELSE Reading(k))]

\* The JSON objects requests.get(url).json() may return for a parameter:
\* an error report, an empty list, a full list, a full list whose last value
\* is missing, a list of predictions for samples one step later, and an
\* object with both keys whose 'data' list is one record short.
Responses(param) ==
    {[error |-> "No data was found"]}
    \cup {[data |-> Records(param, n, 0, 0)] : n \in {0, MaxLen}}
    \cup {[data |-> Records(param, MaxLen, 0, MaxLen)]}
    \cup {[predictions |-> Records(param, MaxLen, 1, 0)]}
    \cup {[data |-> Records(param, MaxLen - 1, 0, 0),
           predictions |-> Records(param, MaxLen, 0, 1)]}

----------------------------------------------------------------------------
(* The script *)

Init ==
    /\ pc = "fetch"
    /\ error = None
    /\ requested = <<>>
    /\ responses = <<>>
    /\ data_store = <<>>
    /\ timestamps = <<>>
    /\ printed = <<>>
    /\ min_time = Unbound
    /\ max_time = Unbound
    /\ min_time_ms = Unbound
    /\ max_time_ms = Unbound
    /\ chart = NoChart
    /\ series_list = <<>>
    /\ i = 0
    /\ j = 0
    /\ sleeps = 0

\* The parameter of the current iteration of the fetch loop.
FetchParam == urls[Len(requested) + 1]

\* Variant: the fetch loop stops one parameter early.
AfterFetch_early(k) == IF k >= Len(urls) - 1 THEN "aggregate" ELSE "fetch"

\* Where the fetch loop goes after the iteration for urls[k].
AfterFetch(k) == IF k = Len(urls) THEN "aggregate" ELSE "fetch"

\* Lines 36-37: the parsed timestamps of a record list, in list order.
Parsed(list) == [k \in 1..Len(list) |-> to_datetime(list[k].t)]

\* Variant: the exception is caught, reported, and the loop goes on.
FetchRaises_caught ==
    /\ pc = "fetch"
    /\ requested' = Append(requested, FetchParam)
    /\ printed' = Append(printed, [msg |-> "Request failed",
                                   param |-> FetchParam])
    /\ pc' = AfterFetch(Len(requested) + 1)
    /\ UNCHANGED <<error, responses, data_store, timestamps, min_time,
                   max_time, min_time_ms, max_time_ms, chart, series_list,
                   i, j, sleeps>>

\* Lines 23-24: requests.get or response.json raises; nothing catches it.
FetchRaises ==
    /\ pc = "fetch"
    /\ requested' = Append(requested, FetchParam)
    /\ pc' = "error"
    /\ error' = "RequestException"
    /\ UNCHANGED <<responses, data_store, timestamps, printed, min_time,
                   max_time, min_time_ms, max_time_ms, chart, series_list,
                   i, j, sleeps>>

\* Lines 23-37 for a body with a 'data' key.
FetchData ==
    /\ pc = "fetch"
    /\ \E data \in Responses(FetchParam) :
        /\ "data" \in DOMAIN data
        /\ requested' = Append(requested, FetchParam)
        /\ responses' = (FetchParam :> data) @@ responses
        /\ data_store' = (FetchParam :> data.data) @@ data_store
        /\ timestamps' = timestamps \o Parsed(data.data)
    /\ pc' = AfterFetch(Len(requested) + 1)
    /\ UNCHANGED <<error, printed, min_time, max_time, min_time_ms,
                   max_time_ms, chart, series_list, i, j, sleeps>>

\* Lines 23-37 for a body with a 'predictions' key and no 'data' key.
FetchPredictions ==
    /\ pc = "fetch"
    /\ \E data \in Responses(FetchParam) :
        /\ "data" \notin DOMAIN data
        /\ "predictions" \in DOMAIN data
        /\ requested' = Append(requested, FetchParam)
        /\ responses' = (FetchParam :> data) @@ responses
        /\ data_store' = (FetchParam :> data.predictions) @@ data_store
        /\ timestamps' = timestamps \o Parsed(data.predictions)
    /\ pc' = AfterFetch(Len(requested) + 1)
    /\ UNCHANGED <<error, printed, min_time, max_time, min_time_ms,
                   max_time_ms, chart, series_list, i, j, sleeps>>

\* Variant: a body with neither key leaves an empty list for the parameter.
FetchUnexpected_empty ==
    /\ pc = "fetch"
    /\ \E data \in Responses(FetchParam) :
        /\ "data" \notin DOMAIN data
        /\ "predictions" \notin DOMAIN data
        /\ requested' = Append(requested, FetchParam)
        /\ responses' = (FetchParam :> data) @@ responses
        /\ data_store' = (FetchParam :> <<>>) @@ data_store
        /\ printed' = Append(printed, [msg |-> "Unexpected structure",
                                       param |-> FetchParam])
    /\ pc' = AfterFetch(Len(requested) + 1)
    /\ UNCHANGED <<error, timestamps, min_time, max_time,
                   min_time_ms, max_time_ms, chart, series_list, i, j, sleeps>>

\* Lines 23-33 for a body with neither key: print and continue.
FetchUnexpected ==
    /\ pc = "fetch"
    /\ \E data \in Responses(FetchParam) :
        /\ "data" \notin DOMAIN data
        /\ "predictions" \notin DOMAIN data
        /\ requested' = Append(requested, FetchParam)
        /\ responses' = (FetchParam :> data) @@ responses
        /\ printed' = Append(printed, [msg |-> "Unexpected structure",
                                       param |-> FetchParam])
    /\ pc' = AfterFetch(Len(requested) + 1)
    /\ UNCHANGED <<error, data_store, timestamps, min_time, max_time,
                   min_time_ms, max_time_ms, chart, series_list, i, j, sleeps>>

\* Variant: an empty pool yields the range [0, 0].
AggregateEmpty_default ==
    /\ pc = "aggregate"
    /\ timestamps = <<>>
    /\ min_time' = 0
    /\ max_time' = 0
    /\ min_time_ms' = 0
    /\ max_time_ms' = 0
    /\ pc' = "chart"
    /\ UNCHANGED <<error, requested, responses, data_store, timestamps,
                   printed, chart, series_list, i, j, sleeps>>

\* Lines 40-45 on an empty pool: min() raises ValueError.
AggregateEmpty ==
    /\ pc = "aggregate"
    /\ timestamps = <<>>
    /\ pc' = "error"
    /\ error' = "ValueError"
    /\ UNCHANGED <<requested, responses, data_store, timestamps, printed,
                   min_time, max_time, min_time_ms, max_time_ms, chart,
                   series_list, i, j, sleeps>>

\* Lines 40-45.
Aggregate ==
    /\ pc = "aggregate"
    /\ timestamps # <<>>
    /\ min_time' = min(timestamps)
    /\ max_time' = max(timestamps)
    /\ min_time_ms' = to_ms(min(timestamps))
    /\ max_time_ms' = to_ms(max(timestamps))
    /\ pc' = "chart"
    /\ UNCHANGED <<error, requested, responses, data_store, timestamps,
                   printed, chart, series_list, i, j, sleeps>>

\* Line 75: the margins of the y-axis stacked at index k (from 0).
Margins(k) ==
    <<IF k > 0 THEN 15 ELSE 0, IF k < Len(urls) - 1 THEN 15 ELSE 0>>

\* Lines 48-85: create the chart, set the x-axis interval, add one stacked
\* y-axis and one empty line series per key of urls, open the chart.
SetupChart ==
    /\ pc = "chart"
    /\ chart' = [x_interval |-> <<min_time_ms, max_time_ms>>,
                 y_axes |-> [k \in 1..Len(urls) |->
                                [title |-> y_axis_units[urls[k]],
                                 margins |-> Margins(k - 1),
                                 interval |-> <<0, 1>>]],
                 live |-> TRUE]
    /\ series_list' = [p \in Params |-> <<>>]
    /\ pc' = "range"
    /\ UNCHANGED <<error, requested, responses, data_store, timestamps,
                   printed, min_time, max_time, min_time_ms, max_time_ms,
                   i, j, sleeps>>

\* Line 88 when data_store has no 'wind' entry: KeyError.
RangeRaises ==
    /\ pc = "range"
    /\ "wind" \notin DOMAIN data_store
    /\ pc' = "error"
    /\ error' = "KeyError"
    /\ UNCHANGED <<requested, responses, data_store, timestamps, printed,
                   min_time, max_time, min_time_ms, max_time_ms, chart,
                   series_list, i, j, sleeps>>

\* Variant: the last position is left out.
len_wind_short == Len(data_store["wind"]) - 1

\* Variant: one position too many.
len_wind_over == Len(data_store["wind"]) + 1

\* Line 88: len(data_store['wind']), the number of playback positions.
len_wind == Len(data_store["wind"])

\* Line 88: range(len(data_store['wind'])) and its first element, if any.
Range ==
    /\ pc = "range"
    /\ "wind" \in DOMAIN data_store
    /\ i' = 0
    /\ j' = 1
    /\ pc' = IF len_wind = 0 THEN "done" ELSE "play"
    /\ UNCHANGED <<error, requested, responses, data_store, timestamps,
                   printed, min_time, max_time, min_time_ms, max_time_ms,
                   chart, series_list, sleeps>>

\* The parameter of the current iteration of the inner playback loop.
PlayParam == urls[j]

\* Where the inner loop goes after the iteration for urls[k].
AfterEntry(k) == IF k = Len(urls) THEN "sleep" ELSE "play"

\* data_store[param][i] succeeds.
HasEntry(param, pos) ==
    /\ param \in DOMAIN data_store
    /\ pos + 1 <= Len(data_store[param])

\* Line 91 raising: KeyError for an absent parameter, IndexError for a
\* position past the end of its list.
PlayRaises ==
    /\ pc = "play"
    /\ ~HasEntry(PlayParam, i)
    /\ pc' = "error"
    /\ error' = IF PlayParam \in DOMAIN data_store
                THEN "IndexError" ELSE "KeyError"
    /\ UNCHANGED <<requested, responses, data_store, timestamps, printed,
                   min_time, max_time, min_time_ms, max_time_ms, chart,
                   series_list, i, j, sleeps>>

\* Variant: every point takes the time of the wind record at its position.
x_value_wind(param, pos) == to_ms(to_datetime(data_store["wind"][pos + 1].t))

\* Lines 92-93: the x-coordinate of the point for parameter param at
\* position pos.
x_value(param, pos) == to_ms(to_datetime(data_store[param][pos + 1].t))

\* Lines 91-106 for a record with a value: add one point to the series.
PlayAdd ==
    /\ pc = "play"
    /\ HasEntry(PlayParam, i)
    /\ LET entry == data_store[PlayParam][i + 1] IN
        /\ IsValid(value_str(PlayParam, entry))
        /\ series_list' =
              [series_list EXCEPT ![PlayParam] =
                  Append(@, <<x_value(PlayParam, i),
                              float(value_str(PlayParam, entry))>>)]
    /\ j' = j + 1
    /\ pc' = AfterEntry(j)
    /\ UNCHANGED <<error, requested, responses, data_store, timestamps,
                   printed, min_time, max_time, min_time_ms, max_time_ms,
                   chart, i, sleeps>>

\* Lines 91-108 for a record with an empty value: print the notice.
PlaySkip ==
    /\ pc = "play"
    /\ HasEntry(PlayParam, i)
    /\ LET entry == data_store[PlayParam][i + 1] IN
        /\ ~IsValid(value_str(PlayParam, entry))
        /\ printed' = Append(printed, [msg |-> "Missing or invalid data",
                                       param |-> PlayParam,
                                       time |-> to_datetime(entry.t)])
    /\ j' = j + 1
    /\ pc' = AfterEntry(j)
    /\ UNCHANGED <<error, requested, responses, data_store, timestamps,
                   min_time, max_time, min_time_ms, max_time_ms, chart,
                   series_list, i, sleeps>>

\* Line 110, then the next element of the range of line 88, if any.
Sleep ==
    /\ pc = "sleep"
    /\ sleeps' = sleeps + 1
    /\ i' = i + 1
    /\ j' = 1
    /\ pc' = IF i + 1 < len_wind THEN "play" ELSE "done"
    /\ UNCHANGED <<error, requested, responses, data_store, timestamps,
                   printed, min_time, max_time, min_time_ms, max_time_ms,
                   chart, series_list>>

Next ==
    \/ FetchRaises
    \/ FetchData
    \/ FetchPredictions
    \/ FetchUnexpected
    \/ AggregateEmpty
    \/ Aggregate
    \/ SetupChart
    \/ RangeRaises
    \/ Range
    \/ PlayRaises
    \/ PlayAdd
    \/ PlaySkip
    \/ Sleep

Spec == Init /\ [][Next]_vars

----------------------------------------------------------------------------
(* Vocabulary of the properties *)

\* The place of a parameter in the fixed order.
Idx(p) == CHOOSE k \in 1..Len(urls) : urls[k] = p

\* The fetch loop has run to its end.
FetchDone == pc # "fetch" /\ error # "RequestException"

\* The script is in, or was stopped in, the playback loop of lines 88-110.
PlaybackError == pc = "error" /\ error \in {"KeyError", "IndexError"}
InPlayback == pc \in {"range", "play", "sleep", "done"} \/ PlaybackError

\* Number of skip notices printed for a parameter.
Skips(p) ==
    Cardinality({k \in DOMAIN printed :
                    /\ printed[k].msg = "Missing or invalid data"
                    /\ printed[k].param = p})

\* Number of points added to a parameter's series.
Points(p) == IF p \in DOMAIN series_list THEN Len(series_list[p]) ELSE 0

\* Number of playback positions at which the inner loop has handled p.
Processed(p) ==
    IF pc = "sleep" THEN i + 1
    ELSE IF pc = "play" \/ PlaybackError
         THEN i + (IF Idx(p) < j THEN 1 ELSE 0)
    ELSE IF pc = "done" THEN i
    ELSE 0

\* The value field of a record as the API names it.
FieldOf(p, entry) == IF p = "wind" THEN entry.s ELSE entry.v

\* A step of the inner playback loop that handled a record.
Visit == pc = "play" /\ pc' \in {"play", "sleep"}

\* How far the playback loop has come: position first, then the place in
\* the inner loop (the pause being its last place).
Progress == i * (Len(urls) + 1) + (IF pc = "sleep" THEN Len(urls) + 1 ELSE j)

\* Every step of the playback loop advances it or ends it by an exception.
Advances ==
    pc \in {"play", "sleep"} =>
        \/ pc' = "error"
        \/ pc' \in {"play", "sleep", "done"} /\ Progress' > Progress

----------------------------------------------------------------------------
(* C2 *)

\* The timestamps contributed by the first k parameters of the fixed order:
\* those of the kept list of each parameter that has an entry.
RECURSIVE PoolOf(_)
PoolOf(k) ==
    IF k = 0 THEN <<>>
    ELSE PoolOf(k - 1) \o
         (IF urls[k] \in DOMAIN data_store
          THEN [n \in 1..Len(data_store[urls[k]]) |->
                    to_datetime(data_store[urls[k]][n].t)]
          ELSE <<>>)

\* C2: after the fetch loop, data_store has an entry for a parameter exactly
\* when its response had a 'data' or a 'predictions' key; the entry is the
\* 'data' list when 'data' is present and the 'predictions' list otherwise;
\* a parameter whose response has neither key has no entry and adds no
\* timestamps to the pool.
C2_DatasetEntries ==
    FetchDone =>
        /\ DOMAIN responses = Params
        /\ \A p \in Params :
            /\ p \in DOMAIN data_store <=>
                  ("data" \in DOMAIN responses[p]
                   \/ "predictions" \in DOMAIN responses[p])
            /\ "data" \in DOMAIN responses[p] =>
                  data_store[p] = responses[p].data
            /\ ("data" \notin DOMAIN responses[p]
                /\ "predictions" \in DOMAIN responses[p]) =>
                  data_store[p] = responses[p].predictions
        /\ timestamps = PoolOf(Len(urls))

\* Fetching ended with one parameter skipped, one answered with both keys
\* and one answered with predictions only.
C2_Witness ==
    /\ pc = "aggregate"
    /\ \E p, q, r \in Params :
        /\ DOMAIN responses[p] = {"error"}
        /\ p \notin DOMAIN data_store
        /\ DOMAIN responses[q] = {"data", "predictions"}
        /\ responses[q].data # responses[q].predictions
        /\ DOMAIN responses[r] = {"predictions"}
        /\ data_store[r] # <<>>

----------------------------------------------------------------------------
(* C3 *)

\* Points added plus skip notices printed equals positions handled.
C3_Counts == \A p \in Params : Points(p) + Skips(p) = Processed(p)

\* A handled record with a value adds exactly one point, at the record's
\* time, to its own series and prints nothing; one with an empty value
\* prints exactly one notice and adds nothing to any series.
C3_Step ==
    Visit =>
        LET p == urls[j]
            entry == data_store[p][i + 1]
        IN  IF FieldOf(p, entry) # ""
            THEN /\ Len(series_list'[p]) = Len(series_list[p]) + 1
                 /\ series_list'[p][Len(series_list'[p])][1]
                       = to_ms(to_datetime(entry.t))
                 /\ \A q \in Params \ {p} : series_list'[q] = series_list[q]
                 /\ printed' = printed
            ELSE /\ Len(printed') = Len(printed) + 1
                 /\ printed'[Len(printed')].msg = "Missing or invalid data"
                 /\ printed'[Len(printed')].param = p
                 /\ series_list' = series_list

\* C3: for every parameter and every position the playback loop visits,
\* either the value is non-empty and exactly one point is added to that
\* parameter's series with no notice, or it is empty and exactly one skip
\* notice is printed with no point added anywhere; per parameter, points
\* plus skips equals the positions handled.
C3_PointOrSkip == [][C3_Step]_vars /\ []C3_Counts

\* One series has received a point and had a position skipped.
C3_Witness ==
    /\ pc = "done"
    /\ \E p \in Params : Points(p) >= 1 /\ Skips(p) >= 1

----------------------------------------------------------------------------
(* C5 *)

\* The parsed timestamps of all records of the dataset.
DatasetTimes ==
    UNION {{to_datetime(data_store[p][k].t) : k \in 1..Len(data_store[p])} :
              p \in DOMAIN data_store}

\* C5: once computed, min_time and max_time bound the timestamp of every
\* record of every parameter of the dataset, and each is the timestamp of
\* some record.
C5_RangeBounds ==
    min_time # Unbound =>
        /\ \A t \in DatasetTimes : min_time <= t /\ t <= max_time
        /\ min_time \in DatasetTimes
        /\ max_time \in DatasetTimes

\* A range whose ends come from neither the first nor the last pooled
\* timestamp.
C5_Witness ==
    /\ min_time # Unbound
    /\ min_time < timestamps[1]
    /\ max_time > timestamps[Len(timestamps)]

----------------------------------------------------------------------------
(* C6 *)

\* The dataset holds no record: every parameter was skipped or kept an
\* empty list.
NoObservations == \A p \in DOMAIN data_store : data_store[p] = <<>>

\* Nothing of the range, the chart or the series exists.
NothingDownstream ==
    /\ min_time = Unbound
    /\ max_time = Unbound
    /\ min_time_ms = Unbound
    /\ max_time_ms = Unbound
    /\ chart = NoChart
    /\ \A p \in Params : Points(p) = 0

\* An exception ends the script: no step leaves a state with pc = "error".
ErrorIsFinal == pc = "error" => UNCHANGED vars

\* C6: with no observation at all after fetching, the range computation
\* fails with an error and the run stops there: no range, no chart, no
\* point, ever.
C6_EmptyDatasetFails ==
    /\ []((FetchDone /\ NoObservations) =>
            /\ pc \in {"aggregate", "error"}
            /\ pc = "error" => error = "ValueError"
            /\ NothingDownstream)
    /\ [][(pc = "aggregate" /\ NoObservations) =>
            (pc' = "error" /\ error' = "ValueError")]_vars
    /\ [][ErrorIsFinal]_vars

\* The range computation failed on a dataset in which some parameters were
\* skipped and the others kept empty lists.
C6_Witness ==
    /\ pc = "error"
    /\ error = "ValueError"
    /\ DOMAIN data_store # {}
    /\ DOMAIN data_store # Params

----------------------------------------------------------------------------
(* C7 *)

\* The phase a position of the script belongs to; an exception keeps the
\* phase it was raised in.
Phase ==
    CASE pc = "fetch" -> 1
      [] pc = "aggregate" -> 2
      [] pc \in {"chart", "range", "play", "sleep", "done"} -> 3
      [] pc = "error" ->
            (CASE error = "RequestException" -> 1
               [] error = "ValueError" -> 2
               [] OTHER -> 3)

FixedOrder ==
    <<"wind", "air_pressure", "water_level", "tide_predictions",
      "water_temperature", "air_temperature">>

SomePoint == \E p \in Params : Points(p) > 0

C7_State ==
    /\ Len(requested) <= Len(FixedOrder)
    /\ requested = SubSeq(FixedOrder, 1, Len(requested))
    \* a request is answered before the next is issued
    /\ pc = "fetch" => DOMAIN responses = {requested[k] : k \in 1..Len(requested)}
    \* the range is computed only after the last fetch
    /\ min_time # Unbound =>
          (Len(requested) = 6 /\ DOMAIN responses = Params /\ Phase = 3)
    /\ Phase < 3 => (min_time = Unbound /\ max_time = Unbound)
    \* no chart and no point before the range
    /\ (chart # NoChart \/ SomePoint) =>
          (Phase = 3 /\ min_time # Unbound /\ max_time # Unbound)

C7_Step ==
    /\ Phase' >= Phase
    /\ requested' # requested =>
          (Phase = 1 /\ ~SomePoint /\ requested' = Append(requested, FixedOrder[Len(requested) + 1]))
    /\ (min_time' # min_time \/ max_time' # max_time) =>
          (pc = "aggregate" /\ min_time = Unbound /\ max_time = Unbound)
    /\ SomePoint => (requested' = requested /\ min_time' = min_time
                     /\ max_time' = max_time /\ Phase' = 3)

\* C7: the phases run in the order fetch, range, chart/playback and none is
\* re-entered; the six fetches are issued one at a time in the fixed order,
\* each answered before the next; the range is computed only after the last
\* fetch; no point is added before the fetches and the range are done, and
\* no fetch is issued after the first point.
C7_PhaseOrder == []C7_State /\ [][C7_Step]_vars

\* Playback ended with points in the series.
C7_Witness == pc = "done" /\ SomePoint /\ Len(requested) = 6

----------------------------------------------------------------------------
(* C8 *)

\* The requests that raised: issued, never answered.
Failed == {k \in 1..Len(requested) : requested[k] \notin DOMAIN responses}

C8_State ==
    /\ \A k, l \in 1..Len(requested) : requested[k] = requested[l] => k = l
    /\ \A k \in Failed :
        /\ k = Len(requested)
        /\ pc = "error"
        /\ error = "RequestException"
        /\ NothingDownstream

\* C8: a request that raises is fatal and is not retried: it was issued
\* exactly once, no later parameter is fetched, the range is not computed,
\* no chart exists and no point is added.
C8_FetchFailureFatal == []C8_State /\ [][ErrorIsFinal]_vars

\* The third request raised after two were answered.
C8_Witness ==
    /\ pc = "error"
    /\ error = "RequestException"
    /\ Len(requested) = 3
    /\ Cardinality(DOMAIN data_store) >= 1

----------------------------------------------------------------------------
(* C10 *)

C10_State ==
    chart # NoChart =>
        /\ chart.x_interval = <<min_time_ms, max_time_ms>>
        /\ \A p \in Params : \A k \in 1..Points(p) :
              /\ chart.x_interval[1] <= series_list[p][k][1]
              /\ series_list[p][k][1] <= chart.x_interval[2]

C10_Step ==
    /\ chart # NoChart => chart' = chart
    /\ \A p \in Params :
          Points(p)' # Points(p) =>
              /\ pc = "play"
              /\ p = urls[j]
              /\ series_list'[p] =
                    Append(series_list[p],
                           <<to_ms(to_datetime(data_store[p][i + 1].t)),
                             series_list'[p][Len(series_list'[p])][2]>>)

\* C10: every point added during playback has as x-coordinate the
\* timestamp, in milliseconds, of its own parameter's record at the current
\* position; that x lies in the x-axis interval [min_time_ms, max_time_ms],
\* which is set once before playback and never changed by it.
C10_PointsInInterval == []C10_State /\ [][C10_Step]_vars

\* A point whose time differs from that of the wind record at its position.
C10_Witness ==
    /\ pc = "done"
    /\ "wind" \in DOMAIN data_store
    /\ \E p \in Params : \E k \in 1..Points(p) :
          /\ k <= Len(data_store["wind"])
          /\ series_list[p][k][1] # to_ms(to_datetime(data_store["wind"][k].t))
          /\ series_list[p][k][1] = to_ms(to_datetime(data_store[p][k].t))

----------------------------------------------------------------------------
(* C1 *)

\* The records of two parameters name the same samples, position by
\* position.
SameTimes(p, q) ==
    /\ Len(data_store[p]) = Len(data_store[q])
    /\ \A k \in 1..Len(data_store[p]) : data_store[p][k].t = data_store[q][k].t

\* Every request was answered, exactly one answer had neither a 'data' nor a
\* 'predictions' key, and the other five parameters kept index-aligned,
\* non-empty lists.
OneSkipped ==
    /\ FetchDone
    /\ DOMAIN responses = Params
    /\ \E p \in Params :
        /\ DOMAIN responses[p] \cap {"data", "predictions"} = {}
        /\ DOMAIN data_store = Params \ {p}
        /\ \A q, r \in Params \ {p} :
              SameTimes(q, r) /\ Len(data_store[q]) >= 1

\* C1: when the response for one of the six parameters has neither key, the
\* run goes on with the smaller dataset and the range computation and the
\* playback loop end without a fatal error, whichever parameter it is.
C1_SkippedParameterTolerated == OneSkipped => pc # "error"

----------------------------------------------------------------------------
(* C4 *)

\* All six parameters have entries, of one length, naming the same samples.
Aligned ==
    /\ FetchDone
    /\ DOMAIN data_store = Params
    /\ \A p \in Params : SameTimes(p, "wind")

C4_State ==
    Aligned =>
        LET N == Len(data_store["wind"]) IN
        /\ ~PlaybackError
        /\ pc \in {"play", "sleep"} => (i < N /\ sleeps = i)
        /\ pc = "play" => j \in 1..6
        /\ pc = "done" => (i = N /\ sleeps = N)
        /\ \A p \in Params : Points(p) <= Processed(p)
        \* the loop is never stuck short of its terminal state
        /\ pc \in {"range", "play", "sleep"} => ENABLED Next

\* Positions are taken in increasing order, one pause ends each, and within
\* a position each of the six steps of the inner loop adds at most one point.
C4_Step ==
    /\ Advances
    /\ i' # i => (pc = "sleep" /\ i' = i + 1 /\ sleeps' = sleeps + 1)
    /\ sleeps' # sleeps => (pc = "sleep" /\ sleeps' = sleeps + 1 /\ i' = i + 1)
    /\ (\E p \in Params : Points(p)' # Points(p)) =>
          /\ pc = "play"
          /\ i' = i
          /\ j' = j + 1
          /\ \A p \in Params :
                Points(p)' = Points(p) + (IF p = urls[j] THEN 1 ELSE 0)

----------------------------------------------------------------------------
(* C9 *)

\* The number of records a parameter offers to the playback loop: none when
\* it has no entry.
Offered(p) == IF p \in DOMAIN data_store THEN Len(data_store[p]) ELSE 0

\* The smallest number of records offered, and the first parameter of the
\* fixed order offering that few.
Shortest == CHOOSE n \in {Offered(p) : p \in Params} :
                \A p \in Params : n <= Offered(p)
FirstShortest ==
    urls[CHOOSE k \in 1..Len(urls) :
            /\ Offered(urls[k]) = Shortest
            /\ \A l \in 1..(k - 1) : Offered(urls[l]) > Shortest]

WindKept == FetchDone /\ "wind" \in DOMAIN data_store
SomeShorter == WindKept /\ Shortest < Len(data_store["wind"])

\* C9 as first put: whenever a kept parameter p has fewer records than
\* wind, L say, playback fails at position L (having handled positions
\* 0..L-1 fully), at p.
C9_FailsAtEachShorter ==
    \A p \in Params \ {"wind"} :
        (/\ FetchDone
         /\ DOMAIN data_store = Params
         /\ Len(data_store[p]) < Len(data_store["wind"])
         /\ PlaybackError)
        => (i = Len(data_store[p]) /\ sleeps = Len(data_store[p]))

C9_State ==
    WindKept =>
        LET N == Len(data_store["wind"]) IN
        /\ pc \in {"play", "sleep"} => i < N
        /\ pc = "done" => (i = N /\ sleeps = N /\ ~SomeShorter)
        /\ pc \in {"range", "play", "sleep"} => ENABLED Next
        /\ \A p \in Params : Points(p) + Skips(p) <= N
        /\ (SomeShorter /\ PlaybackError) =>
              /\ i = Shortest
              /\ urls[j] = FirstShortest
              /\ sleeps = Shortest
              /\ \A p \in Params :
                    Points(p) + Skips(p) =
                        Shortest + (IF Idx(p) < Idx(FirstShortest) THEN 1 ELSE 0)

\* C9 (amended): the number of playback positions is fixed by the length of
\* the wind series alone.  If the fewest records any parameter offers is L,
\* fewer than wind's (a parameter with no entry offering none), playback
\* does not complete: it handles positions 0..L-1 fully, then fails at
\* position L at the first parameter of the fixed order that offers L
\* records, after handling position L for the parameters before it, and
\* with no pause for position L.  Records at positions >= len(wind) are
\* never plotted.  (The loop is never stuck and each step advances it, so
\* it ends, and with a shorter series it can end only by that exception.)
C9_WindDrivesPlayback ==
    /\ []C9_State
    /\ [][Advances]_vars

\* Playback failed at a list one record shorter than wind's, after the
\* parameters before it were handled at that position, while a still
\* shorter list is not the case and another list is as long as wind's.
C9_Witness ==
    /\ SomeShorter
    /\ PlaybackError
    /\ Shortest = MaxLen - 1
    /\ Shortest >= 1
    /\ Idx(FirstShortest) > 2
    /\ \E p \in Params : Points(p) + Skips(p) = Shortest + 1


====
